---- MODULE Spec2Model ----
(***************************************************************************)
(* Cache freshness and synchronisation engine of the Tella Raycast         *)
(* extension: the transcript delta cache (search-transcripts.tsx,          *)
(* cache.ts) and the video collection orchestrator (browse-videos.tsx,     *)
(* cache.ts).                                                              *)
(*                                                                         *)
(* A Video is represented by its id; a transcript by its status and a      *)
(* text version standing for its content (text, videoName, sentences).     *)
(* Optional values are records of one shape whose flag says "absent", so   *)
(* that values of different kinds are never compared.                      *)
(***************************************************************************)
EXTENDS Integers, Sequences, FiniteSets, TLC

(***************************************************************************)
(* Bounds of the model                                                     *)
(***************************************************************************)
NumVideoIds == 2
NumTexts == 2
MaxLoads == 3
MaxOverlappingLoads == 2
MaxOverlapVideos == 2
MaxClock == 1
MaxConcurrency == 2
MaxFetchVideos == 3
MaxPages == 2
MaxRefreshes == 1

(***************************************************************************)
(* Program constants                                                       *)
(***************************************************************************)
FETCH_CONCURRENCY == 5
CACHE_FRESH_THRESHOLD_MS == 5 * 60 * 1000

\* the values of the cacheDuration preference, in minutes (0 = manual only)
Durations == {0, 5, 30, 60}

Procs == {1, 2}
VideoIds == 1 .. NumVideoIds
Texts == 1 .. NumTexts

RECURSIVE SeqsNoDup(_)
\* the duplicate-free lists over the id set S: a collection snapshot is a
\* list of Video records whose id is unique
SeqsNoDup(S) ==
  IF S = {} THEN {<< >>}
  ELSE {<< >>} \cup UNION {{<<x>> \o s : s \in SeqsNoDup(S \ {x})} : x \in S}

VideoLists == SeqsNoDup(VideoIds)

IdSet(vs) == {vs[k] : k \in DOMAIN vs}

(***************************************************************************)
(* Transcripts                                                             *)
(***************************************************************************)
NullTranscript == [status |-> "null", text |-> 0]
Thrown == [status |-> "throw", text |-> 0]

\* what one getVideo(id) call can produce: a rejection, a video without a
\* transcript, or a video with a transcript of some status
GetVideoResponses ==
  {Thrown, NullTranscript}
    \cup {[status |-> "ready", text |-> t] : t \in Texts}
    \cup {[status |-> s, text |-> 1] : s \in {"processing", "failed"}}

\* the responses told apart by status only: the content of a transcript plays
\* no part in the delta, the batches or the choice of what is cached
GetVideoResponsesByStatus ==
  {Thrown, NullTranscript}
    \cup {[status |-> s, text |-> 1] : s \in {"ready", "processing", "failed"}}

\* one response of each kind the code tells apart (rejected, not ready,
\* ready with either content), for the runs with overlapping loads
GetVideoResponsesByKind ==
  {Thrown, [status |-> "processing", text |-> 1]}
    \cup {[status |-> "ready", text |-> t] : t \in Texts}

EmptyMap == << >>

\* LocalStorage holds no item under the key / getTranscriptCache() === null
NoTranscriptCache == [exists |-> FALSE, transcripts |-> EmptyMap, fetchedAt |-> 0]

ObjectSpreadNewLoses(a, b) ==
  [k \in (DOMAIN a) \cup (DOMAIN b) |-> IF k \in DOMAIN a THEN a[k] ELSE b[k]]

\* { ...a, ...b }
ObjectSpread(a, b) ==
  [k \in (DOMAIN a) \cup (DOMAIN b) |-> IF k \in DOMAIN b THEN b[k] ELSE a[k]]

\* existing?.transcripts || {}
TranscriptsOrEmpty(c) == IF c.exists THEN c.transcripts ELSE EmptyMap

\* the value `updated` of addTranscriptsToCache, built at time t
MergedCache(existing, newTranscripts, t) ==
  [exists |-> TRUE,
   transcripts |-> ObjectSpread(TranscriptsOrEmpty(existing), newTranscripts),
   fetchedAt |-> t]

\* "Filter out deleted videos from cache": the in-memory copy of the cache
\* restricted to the ids of the collection
ValidTranscripts(c, videoIds) ==
  IF c.exists
  THEN [c EXCEPT !.transcripts =
          [k \in (DOMAIN c.transcripts) \cap videoIds |-> c.transcripts[k]]]
  ELSE c

VideosToFetchAll(vs, cachedIds) == vs

\* videos.filter((v) => !cachedIds.has(v.id))
VideosToFetch(vs, cachedIds) == SelectSeq(vs, LAMBDA v : v \notin cachedIds)

IsCacheableAlways(r) == r.status \notin {"throw", "null"}

\* transcript && transcript.status === "ready"
IsCacheable(r) == r.status = "ready"

Min(a, b) == IF a < b THEN a ELSE b

BatchPositionsOverlapping(i, concurrency, len) == i .. Min(i + concurrency, len)

\* videos.slice(i, i + concurrency), as positions of the worklist (1-based)
BatchPositions(i, concurrency, len) == i .. Min(i + concurrency - 1, len)

(***************************************************************************)
(* State                                                                   *)
(***************************************************************************)
VARIABLES
  tstore,      \* LocalStorage["tella-transcripts-cache"], parsed
  now,         \* Date.now(), in ms
  loads,       \* number of loadTranscripts invocations started so far
  lt,          \* per invocation slot: the frame (locals) of loadTranscripts
  isLoading,   \* React state of SearchTranscripts
  error,       \* React state of SearchTranscripts: an error is shown
  hist,        \* history of the sequential runs, written by Observe only
  vstore,      \* LocalStorage["tella-videos-cache-<key>"], parsed, per key
  playlistId,  \* prop of BrowseVideos ("" = undefined: all videos)
  ui,          \* React state of BrowseVideos
  lv,          \* the frame of loadVideos (useEffect on mount)
  rf,          \* per caller: the frame of refreshAllVideos
  refreshes,   \* number of manual refreshes started so far
  pg,          \* the useCachedPromise hook of the fallback pagination
  items,       \* LocalStorage as the cache layer sees it: key -> raw item
  call,        \* the frame of the cache-layer function called directly
  last,        \* what the call before the one of `call` was and did
  cls,         \* an entry age, a duration and what the three tests answer
  tf           \* the frame of tellaFetch, over its recursive calls

\* the transcript search command, without the clock
tvars == <<tstore, loads, lt, isLoading, error, hist>>
\* the video browser, without the clock
vvars == <<vstore, playlistId, ui, lv, rf, refreshes, pg>>
\* the cache layer called directly, without the clock
cvars == <<items, call, last, cls, tf>>
vars == <<tstore, now, loads, lt, isLoading, error, hist,
          vstore, playlistId, ui, lv, rf, refreshes, pg,
          items, call, last, cls, tf>>

IdleFrame ==
  [pc |-> "idle",
   forceRefresh |-> FALSE,
   videos |-> << >>,
   transcriptCache |-> NoTranscriptCache,
   videosToFetch |-> << >>,
   concurrency |-> FETCH_CONCURRENCY,
   i |-> 1,
   pending |-> {},
   batchResults |-> EmptyMap,
   newTranscripts |-> EmptyMap,
   results |-> << >>,
   existing |-> NoTranscriptCache,
   updated |-> NoTranscriptCache,
   threw |-> {}]

Running(p) == lt[p].pc # "idle"

\* results.push(result.value) for the settled promises of a batch, in batch order
RECURSIVE PushBatch(_, _, _, _)
PushBatch(results, todo, batchResults, positions) ==
  IF positions = {} THEN results
  ELSE LET k == CHOOSE x \in positions : \A y \in positions : x <= y
       IN PushBatch(Append(results, [id |-> todo[k], transcript |-> batchResults[k]]),
                    todo, batchResults, positions \ {k})

\* lines 173-244 of loadTranscripts, run without suspension once the in-memory
\* transcript cache `cache` is known: prune, delta, and either the early
\* return ("All transcripts cached") or the first batch of fetchTranscripts
AfterDelta(f, cache) ==
  LET videoIds == IdSet(f.videos)
      pruned == ValidTranscripts(cache, videoIds)
      cachedIds == DOMAIN TranscriptsOrEmpty(pruned)
      todo == VideosToFetch(f.videos, cachedIds)
  IN IF todo = << >>
     THEN IdleFrame
     ELSE [f EXCEPT !.transcriptCache = pruned,
                    !.videosToFetch = todo,
                    !.pc = "fetch",
                    !.i = 1,
                    !.pending = BatchPositions(1, f.concurrency, Len(todo))]

(***************************************************************************)
(* History of a run, recorded when hist.on: what the steps of a slot did   *)
(***************************************************************************)
NoHistory ==
  [on |-> FALSE,         \* whether the history is recorded in this run
   dropped |-> {},       \* ids that were cached while a load ran without them
   mustRefetch |-> {},   \* dropped ids back in the collection of the last delta
   lastFailed |-> {},    \* ids the last completed load fetched without a ready result
   mustRetry |-> {},     \* lastFailed ids in the collection of the last delta
   worklist |-> {},      \* ids of the last worklist computed
   completed |-> FALSE,  \* the last load ended after it had computed its worklist
   collection |-> {}]    \* ids of the collection that load used

\* the step computes the worklist (lines 185-203)
DeltaStep(p) ==
  /\ lt[p].pc \in {"getTranscriptCache", "clearTranscriptCache"}
  /\ lt'[p].pc \in {"fetch", "idle"}

\* the step ends an invocation
FinishStep(p) ==
  /\ lt[p].pc \notin {"idle", "userClear"}
  /\ lt'[p].pc = "idle"

\* ids of the invocation ending in this step whose fetch gave no ready transcript
FailedIds(p) ==
  IF lt[p].pc = "addWrite"
  THEN {lt[p].results[k].id :
          k \in {j \in DOMAIN lt[p].results : lt[p].results[j].transcript.status # "ready"}}
  ELSE IF lt[p].pc = "fetch" THEN IdSet(lt[p].videosToFetch)
  ELSE {}

Observe(p) ==
  LET ids == IdSet(lt[p].videos)
      h1 == IF DeltaStep(p)
            THEN [hist EXCEPT
                    !.dropped = (@ \cup ((DOMAIN tstore.transcripts) \ ids)) \ ids,
                    !.mustRefetch = hist.dropped \cap ids,
                    !.mustRetry = hist.lastFailed \cap ids,
                    !.worklist = IdSet(lt'[p].videosToFetch)]
            ELSE hist
      h2 == IF FinishStep(p)
            THEN [h1 EXCEPT !.lastFailed = FailedIds(p),
                            !.completed = (lt[p].pc # "listVideos"),
                            !.collection = ids]
            ELSE h1
  IN hist' = IF hist.on THEN h2 ELSE hist

(***************************************************************************)
(* loadTranscripts(forceRefresh)                                           *)
(***************************************************************************)
\* useEffect on mount (forceRefresh = false), when the command is opened and
\* no load of an earlier launch is running, or "Refresh Transcripts"
\* (forceRefresh = true), an action of the views rendered when isLoading is
\* false: runs to the first await, getVideoCache()
StartLoad(p, force, cap) ==
  /\ ~Running(p)
  /\ loads < cap
  /\ IF force THEN loads > 0 /\ ~isLoading ELSE \A q \in Procs : ~Running(q)
  /\ loads' = loads + 1
  /\ lt' = [lt EXCEPT ![p] = [IdleFrame EXCEPT !.pc = "getVideoCache",
                                               !.forceRefresh = force]]
  /\ isLoading' = TRUE
  /\ error' = FALSE
  /\ UNCHANGED <<tstore, now>>
  /\ UNCHANGED <<vvars, cvars>>
  /\ Observe(p)

\* "Clear Transcript Cache", an action of every view of the mounted command,
\* the loading view included: await clearTranscriptCache(), then
\* loadTranscripts(true)
UserClear(p, cap) ==
  /\ ~Running(p)
  /\ loads < cap
  /\ loads > 0
  /\ lt' = [lt EXCEPT ![p] = [IdleFrame EXCEPT !.pc = "userClear"]]
  /\ UNCHANGED <<tstore, now, loads, isLoading, error>>
  /\ UNCHANGED <<vvars, cvars>>
  /\ Observe(p)

UserClearResolves(p) ==
  /\ lt[p].pc = "userClear"
  /\ tstore' = NoTranscriptCache
  /\ loads' = loads + 1
  /\ lt' = [lt EXCEPT ![p] = [IdleFrame EXCEPT !.pc = "getVideoCache",
                                               !.forceRefresh = TRUE]]
  /\ isLoading' = TRUE
  /\ error' = FALSE
  /\ UNCHANGED now
  /\ UNCHANGED <<vvars, cvars>>
  /\ Observe(p)

\* getVideoCache() resolves with a non-empty list: the collection is the
\* cached one; the code goes on to await getTranscriptCache()
GetVideoCacheHit(p, vs) ==
  /\ lt[p].pc = "getVideoCache"
  /\ vs # << >>
  /\ lt' = [lt EXCEPT ![p].videos = vs, ![p].pc = "getTranscriptCache"]
  /\ UNCHANGED <<tstore, now, loads, isLoading, error>>
  /\ UNCHANGED <<vvars, cvars>>
  /\ Observe(p)

\* getVideoCache() resolves with null or an empty list: listVideos is paginated
GetVideoCacheMiss(p) ==
  /\ lt[p].pc = "getVideoCache"
  /\ lt' = [lt EXCEPT ![p].pc = "listVideos"]
  /\ UNCHANGED <<tstore, now, loads, isLoading, error>>
  /\ UNCHANGED <<vvars, cvars>>
  /\ Observe(p)

\* the pagination loop ends with the collection vs; an empty one ends the load
ListVideosDone(p, vs) ==
  /\ lt[p].pc = "listVideos"
  /\ IF vs = << >>
     THEN /\ lt' = [lt EXCEPT ![p] = IdleFrame]
          /\ isLoading' = FALSE
     ELSE /\ lt' = [lt EXCEPT ![p].videos = vs, ![p].pc = "getTranscriptCache"]
          /\ UNCHANGED isLoading
  /\ UNCHANGED <<tstore, now, loads, error>>
  /\ UNCHANGED <<vvars, cvars>>
  /\ Observe(p)

\* a listVideos call rejects: catch sets the error, finally clears isLoading
ListVideosThrows(p) ==
  /\ lt[p].pc = "listVideos"
  /\ lt' = [lt EXCEPT ![p] = IdleFrame]
  /\ error' = TRUE
  /\ isLoading' = FALSE
  /\ UNCHANGED <<tstore, now, loads>>
  /\ UNCHANGED <<vvars, cvars>>
  /\ Observe(p)

\* getTranscriptCache() resolves; without forceRefresh the delta is computed
\* at once, with it clearTranscriptCache() is awaited first
GetTranscriptCacheResolves(p) ==
  /\ lt[p].pc = "getTranscriptCache"
  /\ IF lt[p].forceRefresh
     THEN /\ lt' = [lt EXCEPT ![p].transcriptCache = tstore,
                              ![p].pc = "clearTranscriptCache"]
          /\ UNCHANGED isLoading
     ELSE /\ lt' = [lt EXCEPT ![p] = AfterDelta(lt[p], tstore)]
          /\ isLoading' = IF lt'[p].pc = "idle" THEN FALSE ELSE isLoading
  /\ UNCHANGED <<tstore, now, loads, error>>
  /\ UNCHANGED <<vvars, cvars>>
  /\ Observe(p)

\* clearTranscriptCache() resolves: the item is removed, transcriptCache = null
ClearTranscriptCacheResolves(p) ==
  /\ lt[p].pc = "clearTranscriptCache"
  /\ tstore' = NoTranscriptCache
  /\ lt' = [lt EXCEPT ![p] = AfterDelta(lt[p], NoTranscriptCache)]
  /\ isLoading' = IF lt'[p].pc = "idle" THEN FALSE ELSE isLoading
  /\ UNCHANGED <<now, loads, error>>
  /\ UNCHANGED <<vvars, cvars>>
  /\ Observe(p)

(***************************************************************************)
(* fetchTranscripts(videos, concurrency)                                   *)
(***************************************************************************)
SettledWithPlaceholder(f, k, r) ==
  LET v == f.videosToFetch[k]
      value == IF r = Thrown THEN NullTranscript ELSE r
      nt == IF IsCacheable(r) \/ r = Thrown
            THEN ObjectSpread(f.newTranscripts,
                              [x \in {v} |-> IF r = Thrown
                                             THEN [status |-> "failed", text |-> 1]
                                             ELSE r])
            ELSE f.newTranscripts
  IN [f EXCEPT !.pending = @ \ {k},
               !.batchResults = ObjectSpread(@, [x \in {k} |-> value]),
               !.newTranscripts = nt,
               !.threw = IF r = Thrown THEN @ \cup {v} ELSE @]

\* the frame after the getVideo call of position k has settled with r
Settled(f, k, r) ==
  LET v == f.videosToFetch[k]
      value == IF r = Thrown THEN NullTranscript ELSE r
      nt == IF IsCacheable(r)
            THEN ObjectSpread(f.newTranscripts, [x \in {v} |-> r])
            ELSE f.newTranscripts
  IN [f EXCEPT !.pending = @ \ {k},
               !.batchResults = ObjectSpread(@, [x \in {k} |-> value]),
               !.newTranscripts = nt,
               !.threw = IF r = Thrown THEN @ \cup {v} ELSE @]

BatchDoneAbortsOnFailure(f) ==
  LET len == Len(f.videosToFetch)
      pushed == PushBatch(f.results, f.videosToFetch, f.batchResults,
                          BatchPositions(f.i, f.concurrency, len))
      g == [f EXCEPT !.results = pushed, !.batchResults = EmptyMap,
                     !.i = f.i + f.concurrency]
  IN IF g.i <= len /\ f.threw = {}
     THEN [g EXCEPT !.pending = BatchPositions(g.i, g.concurrency, len)]
     ELSE IF DOMAIN g.newTranscripts # {}
          THEN [g EXCEPT !.pc = "addRead"]
          ELSE IdleFrame

\* Promise.allSettled of the batch has resolved: push the results, then
\* either issue the next batch or return to loadTranscripts, which awaits
\* addTranscriptsToCache when the payload is not empty and ends otherwise
BatchDone(f) ==
  LET len == Len(f.videosToFetch)
      pushed == PushBatch(f.results, f.videosToFetch, f.batchResults,
                          BatchPositions(f.i, f.concurrency, len))
      g == [f EXCEPT !.results = pushed, !.batchResults = EmptyMap,
                     !.i = f.i + f.concurrency]
  IN IF g.i <= len
     THEN [g EXCEPT !.pending = BatchPositions(g.i, g.concurrency, len)]
     ELSE IF DOMAIN g.newTranscripts # {}
          THEN [g EXCEPT !.pc = "addRead"]
          ELSE IdleFrame

\* one getVideo call of the batch in flight settles with response r
ResolveGetVideo(p, k, r) ==
  /\ lt[p].pc = "fetch"
  /\ k \in lt[p].pending
  /\ LET f == Settled(lt[p], k, r)
     IN lt' = [lt EXCEPT ![p] = IF f.pending = {} THEN BatchDone(f) ELSE f]
  /\ isLoading' = IF lt'[p].pc = "idle" THEN FALSE ELSE isLoading
  /\ UNCHANGED <<tstore, now, loads, error>>
  /\ UNCHANGED <<vvars, cvars>>
  /\ Observe(p)

(***************************************************************************)
(* addTranscriptsToCache(newTranscripts)                                   *)
(***************************************************************************)
\* getTranscriptCache() resolves inside addTranscriptsToCache: `updated` is
\* built and setTranscriptCache(updated) is awaited
AddRead(p) ==
  /\ lt[p].pc = "addRead"
  /\ lt' = [lt EXCEPT ![p].existing = tstore,
                      ![p].updated = MergedCache(tstore, lt[p].newTranscripts, now),
                      ![p].pc = "addWrite"]
  /\ UNCHANGED <<tstore, now, loads, isLoading, error>>
  /\ UNCHANGED <<vvars, cvars>>
  /\ Observe(p)

\* LocalStorage.setItem resolves: the whole item is overwritten; the load ends
AddWrite(p) ==
  /\ lt[p].pc = "addWrite"
  /\ tstore' = lt[p].updated
  /\ lt' = [lt EXCEPT ![p] = IdleFrame]
  /\ isLoading' = FALSE
  /\ UNCHANGED <<now, loads, error>>
  /\ UNCHANGED <<vvars, cvars>>
  /\ Observe(p)

Tick ==
  /\ now < MaxClock
  /\ now' = now + 1
  /\ UNCHANGED <<tvars, vvars, cvars>>

(***************************************************************************)
(* Video collection cache (cache.ts)                                       *)
(***************************************************************************)
\* getCacheKey: `${CACHE_KEY_PREFIX}-${playlistId || "all"}`, without the prefix
getCacheKey(pid) == IF pid = "" THEN "all" ELSE pid

PlaylistProps == {"", "p1"}
CacheKeys == {getCacheKey(pid) : pid \in PlaylistProps}

\* no item under the key, or one that does not parse: getVideoCache() === null
NoVideoCache == [exists |-> FALSE, videos |-> << >>, fetchedAt |-> 0, playlistId |-> "null"]

NewVideoCacheKeepsPlaylistId(videos, pid, t) ==
  [exists |-> TRUE, videos |-> videos, fetchedAt |-> t, playlistId |-> pid]

\* the VideoCache object setVideoCache builds at time t
NewVideoCache(videos, pid, t) ==
  [exists |-> TRUE, videos |-> videos, fetchedAt |-> t,
   playlistId |-> IF pid = "" THEN "null" ELSE pid]

\* duration * 60 * 1000
MaxAgeMs(duration) == duration * 60 * 1000

isCacheFresh(cache, t, duration) ==
  IF duration = 0 THEN FALSE
  ELSE t - cache.fetchedAt < CACHE_FRESH_THRESHOLD_MS

isCacheStaleInclusive(cache, t, duration) ==
  IF duration = 0 THEN FALSE
  ELSE LET age == t - cache.fetchedAt
       IN age >= CACHE_FRESH_THRESHOLD_MS /\ age <= MaxAgeMs(duration)

isCacheStale(cache, t, duration) ==
  IF duration = 0 THEN FALSE
  ELSE LET age == t - cache.fetchedAt
       IN age >= CACHE_FRESH_THRESHOLD_MS /\ age < MaxAgeMs(duration)

isCacheExpiredInManualMode(cache, t, duration) ==
  t - cache.fetchedAt >= MaxAgeMs(duration)

isCacheExpired(cache, t, duration) ==
  IF duration = 0 THEN FALSE
  ELSE t - cache.fetchedAt >= MaxAgeMs(duration)

\* the clock values of the runs of BrowseVideos: with the stamps of
\* StoredVideoCaches and the durations they give entries of every class
\* (fresh, stale, expired, stamped in the future)
OrchTimes == {0, CACHE_FRESH_THRESHOLD_MS - 1, CACHE_FRESH_THRESHOLD_MS}

(***************************************************************************)
(* BrowseVideos (browse-videos.tsx)                                        *)
(***************************************************************************)
NoStamp == -1

\* useState initial values
InitialUi ==
  [videos |-> << >>,
   isLoading |-> TRUE,
   isSyncing |-> FALSE,
   lastSynced |-> NoStamp,
   usePagination |-> FALSE,
   paginatedVideos |-> << >>,
   toast |-> "none"]

\* data = usePagination ? paginatedVideos : videos
Data(u) == IF u.usePagination THEN u.paginatedVideos ELSE u.videos

\* the hook before it has executed: no request in flight, no page received
NoPagination == [inflight |-> {}, hasMore |-> FALSE, cursor |-> ""]

\* refreshAllVideos is not running
NoRefresh ==
  [phase |-> "idle", allVideos |-> << >>, cursor |-> "", pages |-> 0,
   entry |-> NoVideoCache]

\* refreshAllVideos has run to its first await: listVideos without a cursor
RefreshStarted ==
  [phase |-> "listVideos", allVideos |-> << >>, cursor |-> "", pages |-> 0,
   entry |-> NoVideoCache]

\* page k of a listVideos response: record k of the catalog, or nothing when
\* that record has been deleted on the server
Pages(k) == {<< >>, <<k>>}
Cursors == {"", "c1"}

\* the successful responses to the listVideos request for page k
ListVideosResponses(k) ==
  {r \in [videos : Pages(k), nextCursor : Cursors, hasMore : BOOLEAN] :
     ~r.hasMore => r.nextCursor = ""}

PageReceivedKeepsCursor(f, resp, pid, t) ==
  LET all == f.allVideos \o resp.videos
  IN IF resp.hasMore
     THEN [f EXCEPT !.allVideos = all, !.pages = @ + 1]
     ELSE [f EXCEPT !.allVideos = all, !.pages = @ + 1,
                    !.phase = "setVideoCache",
                    !.entry = NewVideoCache(all, pid, t)]

\* the frame after a page has arrived at time t: the loop goes on with the
\* next cursor, or ends and setVideoCache(allVideos, playlistId) is awaited
PageReceived(f, resp, pid, t) ==
  LET all == f.allVideos \o resp.videos
  IN IF resp.hasMore
     THEN [f EXCEPT !.allVideos = all, !.cursor = resp.nextCursor, !.pages = @ + 1]
     ELSE [f EXCEPT !.allVideos = all, !.cursor = resp.nextCursor, !.pages = @ + 1,
                    !.phase = "setVideoCache",
                    !.entry = NewVideoCache(all, pid, t)]

ShowCachedDeferred(u, cache) == [u EXCEPT !.lastSynced = cache.fetchedAt]

\* "Always show cached data immediately, even if expired" (lines 140-142)
ShowCached(u, cache) ==
  [u EXCEPT !.videos = cache.videos,
            !.lastSynced = cache.fetchedAt,
            !.isLoading = FALSE]

OnRefreshedSilentInBackground(u, owner, videos, t) ==
  LET v == [u EXCEPT !.lastSynced = t]
  IN CASE owner = "bg" -> [v EXCEPT !.isSyncing = FALSE]
       [] owner = "fg" -> [v EXCEPT !.isLoading = FALSE, !.videos = videos]
       [] owner = "manual" -> [v EXCEPT !.isLoading = FALSE, !.videos = videos,
                                        !.toast = "success"]

\* what the caller of refreshAllVideos does when it returns `videos` at time t:
\* loadVideos in the background ("bg"), loadVideos without a cache ("fg"),
\* handleRefresh ("manual")
OnRefreshed(u, owner, videos, t) ==
  LET v == [u EXCEPT !.lastSynced = t, !.videos = videos]
  IN CASE owner = "bg" -> [v EXCEPT !.isSyncing = FALSE]
       [] owner = "fg" -> [v EXCEPT !.isLoading = FALSE]
       [] owner = "manual" -> [v EXCEPT !.isLoading = FALSE, !.toast = "success"]

OnRefreshFailedAlwaysFallsBack(u, owner) ==
  CASE owner = "bg" -> [u EXCEPT !.isSyncing = FALSE, !.usePagination = TRUE]
    [] owner = "fg" -> [u EXCEPT !.usePagination = TRUE, !.isLoading = FALSE]
    [] owner = "manual" -> [u EXCEPT !.isLoading = FALSE, !.toast = "failure"]

OnRefreshFailedNeverFallsBack(u, owner) ==
  CASE owner = "bg" -> [u EXCEPT !.isSyncing = FALSE]
    [] owner = "fg" -> [u EXCEPT !.isLoading = FALSE]
    [] owner = "manual" -> [u EXCEPT !.isLoading = FALSE, !.toast = "failure"]

OnRefreshFailedKeepsSyncing(u, owner) ==
  CASE owner = "bg" -> u
    [] owner = "fg" -> [u EXCEPT !.usePagination = TRUE, !.isLoading = FALSE]
    [] owner = "manual" -> [u EXCEPT !.isLoading = FALSE, !.toast = "failure"]

\* what the caller does when refreshAllVideos throws
OnRefreshFailed(u, owner) ==
  CASE owner = "bg" -> [u EXCEPT !.isSyncing = FALSE]
    [] owner = "fg" -> [u EXCEPT !.usePagination = TRUE, !.isLoading = FALSE]
    [] owner = "manual" -> [u EXCEPT !.isLoading = FALSE, !.toast = "failure"]

\* the caller of the refreshAllVideos run of slot s
Owner(s) == IF s = "manual" THEN "manual" ELSE lv.pc

\* loadVideos has returned; outcome tells how: the cache was shown and not
\* refreshed ("fromCache"), the refresh succeeded ("fromFetch"), the
\* background refresh failed ("backgroundFailed"), or the fetch without a
\* cache failed ("fallback")
Returned(owner, ok) ==
  [pc |-> "done",
   outcome |-> IF ok THEN "fromFetch"
               ELSE IF owner = "bg" THEN "backgroundFailed" ELSE "fallback"]

Slots == {"load", "manual"}

\* useCachedPromise with `execute: usePagination`: when the option turns
\* true the hook calls the function without a cursor
Executed(u, v, g) ==
  IF ~u.usePagination /\ v.usePagination
  THEN [g EXCEPT !.inflight = @ \cup {""}]
  ELSE g

\* the page of the paginated request with cursor c: the first page is empty
\* or holds record 1; a later page is empty, holds the next record, or holds
\* record 1 again (the catalog has shifted between the two requests)
PaginatedPages(c) == IF c = "" THEN {<< >>, <<1>>} ELSE {<< >>, <<1>>, <<2>>}

PaginatedResponses(c) ==
  {r \in [videos : PaginatedPages(c), nextCursor : Cursors, hasMore : BOOLEAN] :
     ~r.hasMore => r.nextCursor = ""}

AccumulateAlwaysAppends(prev, cursor, newVideos) ==
  prev \o SelectSeq(newVideos, LAMBDA v : v \notin IdSet(prev))

\* the updater passed to setPaginatedVideos (lines 242-249): a page asked
\* without a cursor replaces the list, another one is appended without the
\* records whose id the list already has
Accumulate(prev, cursor, newVideos) ==
  IF cursor = "" THEN newVideos
  ELSE prev \o SelectSeq(newVideos, LAMBDA v : v \notin IdSet(prev))

\* getVideoCache(playlistId) resolves in loadVideos: a hit is shown at once
\* and refreshed in the background when expired or stale; a miss is fetched.
\* duration is what getCacheDuration() returns to the freshness checks
LoadVideosCacheResolves(duration) ==
  /\ lv.pc = "getVideoCache"
  /\ LET cache == vstore[getCacheKey(playlistId)]
     IN IF cache.exists
        THEN IF isCacheExpired(cache, now, duration)
                  \/ isCacheStale(cache, now, duration)
             THEN /\ ui' = [ShowCached(ui, cache) EXCEPT !.isSyncing = TRUE]
                  /\ lv' = [lv EXCEPT !.pc = "bg"]
                  /\ rf' = [rf EXCEPT !["load"] = RefreshStarted]
             ELSE /\ ui' = ShowCached(ui, cache)
                  /\ lv' = [pc |-> "done", outcome |-> "fromCache"]
                  /\ UNCHANGED rf
        ELSE /\ ui' = [ui EXCEPT !.isLoading = TRUE]
             /\ lv' = [lv EXCEPT !.pc = "fg"]
             /\ rf' = [rf EXCEPT !["load"] = RefreshStarted]
  /\ UNCHANGED <<vstore, playlistId, refreshes, pg, now>>
  /\ UNCHANGED <<tvars, cvars>>

HandleRefreshSkipsFresh ==
  /\ ~ui.usePagination
  /\ rf["manual"].phase = "idle"
  /\ refreshes < MaxRefreshes
  /\ refreshes' = refreshes + 1
  /\ LET cache == vstore[getCacheKey(playlistId)]
     IN IF cache.exists /\ now - cache.fetchedAt < CACHE_FRESH_THRESHOLD_MS
        THEN UNCHANGED <<ui, rf>>
        ELSE /\ ui' = [ui EXCEPT !.isLoading = TRUE]
             /\ rf' = [rf EXCEPT !["manual"] = RefreshStarted]
  /\ UNCHANGED <<vstore, playlistId, lv, pg, now>>
  /\ UNCHANGED <<tvars, cvars>>

\* handleRefresh outside fallback mode: setIsLoading(true), refreshAllVideos
HandleRefresh ==
  /\ ~ui.usePagination
  /\ rf["manual"].phase = "idle"
  /\ refreshes < MaxRefreshes
  /\ refreshes' = refreshes + 1
  /\ ui' = [ui EXCEPT !.isLoading = TRUE]
  /\ rf' = [rf EXCEPT !["manual"] = RefreshStarted]
  /\ UNCHANGED <<vstore, playlistId, lv, pg, now>>
  /\ UNCHANGED <<tvars, cvars>>

HandleRefreshFallbackRetriesCache ==
  /\ ui.usePagination
  /\ rf["manual"].phase = "idle"
  /\ ui' = [ui EXCEPT !.usePagination = FALSE, !.isLoading = TRUE]
  /\ rf' = [rf EXCEPT !["manual"] = RefreshStarted]
  /\ UNCHANGED <<vstore, playlistId, lv, refreshes, pg, now>>
  /\ UNCHANGED <<tvars, cvars>>

\* handleRefresh in fallback mode: setPaginatedVideos([]), revalidate(), return
HandleRefreshFallback ==
  /\ ui.usePagination
  /\ ui' = [ui EXCEPT !.paginatedVideos = << >>]
  /\ pg' = [pg EXCEPT !.inflight = @ \cup {""}]
  /\ UNCHANGED <<vstore, playlistId, lv, rf, refreshes, now>>
  /\ UNCHANGED <<tvars, cvars>>

\* pagination.onLoadMore: the list asks for the page after the last one received
LoadMore ==
  /\ ui.usePagination
  /\ pg.hasMore
  /\ pg.inflight = {}
  /\ pg' = [pg EXCEPT !.inflight = {pg.cursor}]
  /\ UNCHANGED <<vstore, playlistId, ui, lv, rf, refreshes, now>>
  /\ UNCHANGED <<tvars, cvars>>

\* the listVideos call of the paginated request with cursor c resolves
PageResolves(c, resp) ==
  /\ c \in pg.inflight
  /\ ui' = [ui EXCEPT !.paginatedVideos = Accumulate(@, c, resp.videos)]
  /\ pg' = [inflight |-> pg.inflight \ {c},
            hasMore |-> resp.hasMore,
            cursor |-> resp.nextCursor]
  /\ UNCHANGED <<vstore, playlistId, lv, rf, refreshes, now>>
  /\ UNCHANGED <<tvars, cvars>>

\* it rejects: onError shows the failure toast, the list is kept
PageRejects(c) ==
  /\ c \in pg.inflight
  /\ ui' = [ui EXCEPT !.toast = "failure"]
  /\ pg' = [pg EXCEPT !.inflight = @ \ {c}]
  /\ UNCHANGED <<vstore, playlistId, lv, rf, refreshes, now>>
  /\ UNCHANGED <<tvars, cvars>>

\* a listVideos call of slot s resolves with a page
ListVideosResolves(s, resp) ==
  /\ rf[s].phase = "listVideos"
  /\ resp.hasMore => rf[s].pages + 1 < MaxPages
  /\ rf' = [rf EXCEPT ![s] = PageReceived(rf[s], resp, playlistId, now)]
  /\ UNCHANGED <<vstore, playlistId, ui, lv, refreshes, pg, now>>
  /\ UNCHANGED <<tvars, cvars>>

ListVideosRejectsStoresPartial(s) ==
  /\ rf[s].phase = "listVideos"
  /\ rf' = [rf EXCEPT ![s] = NoRefresh]
  /\ ui' = OnRefreshFailed(ui, Owner(s))
  /\ lv' = IF s = "load" THEN Returned(lv.pc, FALSE) ELSE lv
  /\ pg' = Executed(ui, ui', pg)
  /\ vstore' = [vstore EXCEPT ![getCacheKey(playlistId)] =
                  NewVideoCache(rf[s].allVideos, playlistId, now)]
  /\ UNCHANGED <<playlistId, refreshes, now>>
  /\ UNCHANGED <<tvars, cvars>>

\* a listVideos call of slot s rejects: refreshAllVideos throws to its caller
ListVideosRejects(s) ==
  /\ rf[s].phase = "listVideos"
  /\ rf' = [rf EXCEPT ![s] = NoRefresh]
  /\ ui' = OnRefreshFailed(ui, Owner(s))
  /\ lv' = IF s = "load" THEN Returned(lv.pc, FALSE) ELSE lv
  /\ pg' = Executed(ui, ui', pg)
  /\ UNCHANGED <<vstore, playlistId, refreshes, now>>
  /\ UNCHANGED <<tvars, cvars>>

SetVideoCacheResolvesKeepsNewer(s) ==
  /\ rf[s].phase = "setVideoCache"
  /\ LET key == getCacheKey(playlistId)
     IN vstore' = IF vstore[key].exists /\ vstore[key].fetchedAt > rf[s].entry.fetchedAt
                  THEN vstore
                  ELSE [vstore EXCEPT ![key] = rf[s].entry]
  /\ ui' = OnRefreshed(ui, Owner(s), rf[s].allVideos, now)
  /\ rf' = [rf EXCEPT ![s] = NoRefresh]
  /\ lv' = IF s = "load" THEN Returned(lv.pc, TRUE) ELSE lv
  /\ UNCHANGED <<playlistId, refreshes, pg, now>>
  /\ UNCHANGED <<tvars, cvars>>

\* LocalStorage.setItem of setVideoCache resolves: the entry is overwritten,
\* setLastSynced(now), and the caller shows the refreshed list
SetVideoCacheResolves(s) ==
  /\ rf[s].phase = "setVideoCache"
  /\ vstore' = [vstore EXCEPT ![getCacheKey(playlistId)] = rf[s].entry]
  /\ ui' = OnRefreshed(ui, Owner(s), rf[s].allVideos, now)
  /\ rf' = [rf EXCEPT ![s] = NoRefresh]
  /\ lv' = IF s = "load" THEN Returned(lv.pc, TRUE) ELSE lv
  /\ UNCHANGED <<playlistId, refreshes, pg, now>>
  /\ UNCHANGED <<tvars, cvars>>

\* LocalStorage.setItem of setVideoCache rejects: setVideoCache swallows it,
\* the entry stays, and refreshAllVideos goes on as after a write
SetVideoCacheRejects(s) ==
  /\ rf[s].phase = "setVideoCache"
  /\ ui' = OnRefreshed(ui, Owner(s), rf[s].allVideos, now)
  /\ rf' = [rf EXCEPT ![s] = NoRefresh]
  /\ lv' = IF s = "load" THEN Returned(lv.pc, TRUE) ELSE lv
  /\ UNCHANGED <<vstore, playlistId, refreshes, pg, now>>
  /\ UNCHANGED <<tvars, cvars>>

\* time passes
TickV ==
  /\ \E t \in OrchTimes : t > now /\ now' = t
  /\ UNCHANGED <<vstore, playlistId, ui, lv, rf, refreshes, pg>>
  /\ UNCHANGED <<tvars, cvars>>

(***************************************************************************)
(* The cache layer over LocalStorage (cache.ts), called directly           *)
(***************************************************************************)
CACHE_KEY_PREFIX == "tella-videos-cache"
TRANSCRIPT_CACHE_KEY == "tella-transcripts-cache"

\* `${CACHE_KEY_PREFIX}-${playlistId || "all"}`
ItemKey(pid) == CACHE_KEY_PREFIX \o "-" \o getCacheKey(pid)

\* the playlistId arguments: none, a playlist id, and the playlist id "all"
PartitionKeys == {"", "p1", "all"}
ItemKeys == {ItemKey(pid) : pid \in PartitionKeys} \cup {TRANSCRIPT_CACHE_KEY}

\* LocalStorage.getItem gives undefined: there is no item under the key
NoItem == [kind |-> "undefined"]
\* an item whose text JSON.parse throws on
NotJson == [kind |-> "text"]
\* the text of a value; JSON.parse gives the value back from that text only
JSONstringify(v) == [kind |-> "json", value |-> v]
JSONparseThrows(item) == item.kind # "json"
JSONparse(item) == item.value

\* what getVideoCache and getTranscriptCache return for the outcome of
\* LocalStorage.getItem: null when it threw (catch), when there is no item,
\* and when JSON.parse throws (catch)
ReadReturns(threw, item, null) ==
  IF threw THEN null
  ELSE IF item = NoItem THEN null
  ELSE IF JSONparseThrows(item) THEN null
  ELSE JSONparse(item)

NoCall ==
  [op |-> "none", pc |-> "idle", pid |-> "", videos |-> << >>, calledAt |-> 0,
   newTranscripts |-> EmptyMap, text |-> NoItem, stored |-> FALSE,
   video |-> NoVideoCache, transcript |-> NoTranscriptCache, raised |-> FALSE]

\* what is remembered of a call when the next one is made
Summary(f) ==
  [on |-> TRUE, op |-> f.op, pid |-> f.pid, videos |-> f.videos,
   calledAt |-> f.calledAt, stored |-> f.stored]

\* no call is remembered
NoSummary == [Summary(NoCall) EXCEPT !.on = FALSE]

\* the key a call reads or writes
KeyOf(f) ==
  IF f.op \in {"getVideoCache", "setVideoCache"} THEN ItemKey(f.pid)
  ELSE TRANSCRIPT_CACHE_KEY

\* the arguments of the calls
RecordLists == {<< >>, <<1>>, <<2, 1>>}
NewTranscriptMaps ==
  {[k \in {id} |-> [status |-> "ready", text |-> 1]] : id \in {1, 2}}

\* a cache-layer function is called once the previous call has returned, and
\* runs to its first await
Called(f) ==
  /\ call.pc \in {"idle", "returned"}
  /\ call' = f
  /\ last' = IF last.on THEN Summary(call) ELSE last
  /\ UNCHANGED <<items, cls, tf, now>>
  /\ UNCHANGED <<tvars, vvars>>

GetVideoCacheCall(pid) ==
  Called([NoCall EXCEPT !.op = "getVideoCache", !.pc = "getItem", !.pid = pid])

SetVideoCacheCall(videos, pid) ==
  Called([NoCall EXCEPT !.op = "setVideoCache", !.pc = "setItem", !.pid = pid,
                        !.videos = videos, !.calledAt = now,
                        !.text = JSONstringify(NewVideoCache(videos, pid, now))])

GetTranscriptCacheCall ==
  Called([NoCall EXCEPT !.op = "getTranscriptCache", !.pc = "getItem"])

AddTranscriptsToCacheCall(newTranscripts) ==
  Called([NoCall EXCEPT !.op = "addTranscriptsToCache", !.pc = "getItem",
                        !.newTranscripts = newTranscripts])

ClearTranscriptCacheCall ==
  Called([NoCall EXCEPT !.op = "clearTranscriptCache", !.pc = "removeItem"])

\* LocalStorage.getItem resolves or rejects: getVideoCache and
\* getTranscriptCache return; addTranscriptsToCache builds `updated` from what
\* its getTranscriptCache returned and goes on to setTranscriptCache
GetItemSettles(threw) ==
  /\ call.pc = "getItem"
  /\ LET item == items[KeyOf(call)]
     IN CASE call.op = "getVideoCache" ->
               call' = [call EXCEPT !.pc = "returned",
                                    !.video = ReadReturns(threw, item, NoVideoCache)]
          [] call.op = "getTranscriptCache" ->
               call' = [call EXCEPT !.pc = "returned",
                                    !.transcript = ReadReturns(threw, item, NoTranscriptCache)]
          [] call.op = "addTranscriptsToCache" ->
               LET existing == ReadReturns(threw, item, NoTranscriptCache)
               IN call' = [call EXCEPT
                             !.pc = "setItem",
                             !.transcript = existing,
                             !.calledAt = now,
                             !.text = JSONstringify(
                                        MergedCache(existing, call.newTranscripts, now))]
  /\ UNCHANGED <<items, last, cls, tf, now>>
  /\ UNCHANGED <<tvars, vvars>>

SetItemSettlesUncaught(threw) ==
  /\ call.pc = "setItem"
  /\ items' = IF threw THEN items ELSE [items EXCEPT ![KeyOf(call)] = call.text]
  /\ call' = [call EXCEPT !.pc = "returned", !.stored = ~threw, !.raised = threw]
  /\ UNCHANGED <<last, cls, tf, now>>
  /\ UNCHANGED <<tvars, vvars>>

\* LocalStorage.setItem resolves, and the item is overwritten, or rejects, and
\* the catch block swallows it: the function returns
SetItemSettles(threw) ==
  /\ call.pc = "setItem"
  /\ items' = IF threw THEN items ELSE [items EXCEPT ![KeyOf(call)] = call.text]
  /\ call' = [call EXCEPT !.pc = "returned", !.stored = ~threw]
  /\ UNCHANGED <<last, cls, tf, now>>
  /\ UNCHANGED <<tvars, vvars>>

\* LocalStorage.removeItem resolves, and the item is gone, or rejects, and the
\* catch block swallows it: clearTranscriptCache returns
RemoveItemSettles(threw) ==
  /\ call.pc = "removeItem"
  /\ items' = IF threw THEN items ELSE [items EXCEPT ![KeyOf(call)] = NoItem]
  /\ call' = [call EXCEPT !.pc = "returned", !.stored = ~threw]
  /\ UNCHANGED <<last, cls, tf, now>>
  /\ UNCHANGED <<tvars, vvars>>

\* tellaFetch has not been called
NoFetch ==
  [pc |-> "idle", attempt |-> 0, requests |-> 0, responses |-> << >>,
   waits |-> << >>]

\* no entry has been put to the three tests
Unclassified ==
  [cache |-> NoVideoCache, duration |-> 0, done |-> FALSE,
   fresh |-> FALSE, stale |-> FALSE, expired |-> FALSE]

\* no cache-layer function is called directly
CacheLayerIdle ==
  /\ items = [k \in ItemKeys |-> NoItem]
  /\ call = NoCall
  /\ last = NoSummary
  /\ cls = Unclassified
  /\ tf = NoFetch

\* BrowseVideos is not mounted
VideosUnmounted ==
  /\ vstore = [k \in CacheKeys |-> NoVideoCache]
  /\ playlistId = ""
  /\ ui = InitialUi
  /\ lv = [pc |-> "unmounted", outcome |-> "none"]
  /\ rf = [s \in Slots |-> NoRefresh]
  /\ refreshes = 0
  /\ pg = NoPagination

\* SearchTranscripts is not mounted
TranscriptsUnmounted ==
  /\ tstore = NoTranscriptCache
  /\ loads = 0
  /\ lt = [p \in Procs |-> IdleFrame]
  /\ isLoading = TRUE
  /\ error = FALSE
  /\ hist = NoHistory

\* the entries a previous session can have left under a key
StoredVideoCaches(pid) ==
  {NoVideoCache}
    \cup {NewVideoCache(vs, pid, t) :
            vs \in {<< >>, <<1>>}, t \in {0, CACHE_FRESH_THRESHOLD_MS}}

\* BrowseVideos has been mounted with some playlistId prop: loadVideos has
\* run to its first await, getVideoCache(playlistId)
InitV ==
  /\ TranscriptsUnmounted
  /\ CacheLayerIdle
  /\ now \in OrchTimes
  /\ playlistId \in PlaylistProps
  /\ \E c \in StoredVideoCaches(playlistId) :
       vstore = [k \in CacheKeys |->
                   IF k = getCacheKey(playlistId) THEN c ELSE NoVideoCache]
  /\ ui = InitialUi
  /\ lv = [pc |-> "getVideoCache", outcome |-> "none"]
  /\ rf = [s \in Slots |-> NoRefresh]
  /\ refreshes = 0
  /\ pg = NoPagination

NextV ==
  \/ \E duration \in Durations : LoadVideosCacheResolves(duration)
  \/ HandleRefresh
  \/ \E s \in Slots :
       \E resp \in ListVideosResponses(rf[s].pages + 1) : ListVideosResolves(s, resp)
  \/ \E s \in Slots : ListVideosRejects(s)
  \/ \E s \in Slots : SetVideoCacheResolves(s)
  \/ HandleRefreshFallback
  \/ LoadMore
  \/ \E c \in Cursors : \E resp \in PaginatedResponses(c) : PageResolves(c, resp)
  \/ \E c \in Cursors : PageRejects(c)
  \/ TickV

SpecV == InitV /\ [][NextV]_vars

\* the cached path alone (what happens in fallback mode is left out), on a
\* store that can reject the writes
NextSync ==
  \/ \E duration \in Durations : LoadVideosCacheResolves(duration)
  \/ HandleRefresh
  \/ \E s \in Slots : \E resp \in ListVideosResponses(rf[s].pages + 1) :
       ListVideosResolves(s, resp)
  \/ \E s \in Slots : ListVideosRejects(s)
  \/ \E s \in Slots : SetVideoCacheResolves(s)
  \/ \E s \in Slots : SetVideoCacheRejects(s)
  \/ TickV

SpecSync == InitV /\ [][NextSync]_vars

\* a call awaited by the re-fetch of slot s settles
Settles(s) ==
  \/ \E resp \in ListVideosResponses(rf[s].pages + 1) : ListVideosResolves(s, resp)
  \/ ListVideosRejects(s)
  \/ SetVideoCacheResolves(s)
  \/ SetVideoCacheRejects(s)

\* the cached path with the clock standing still
NextSettling ==
  \/ \E duration \in Durations : LoadVideosCacheResolves(duration)
  \/ HandleRefresh
  \/ \E s \in Slots : Settles(s)

\* the mount at one clock value, at which the stored entries are of every
\* age class
InitSettling == InitV /\ now = CACHE_FRESH_THRESHOLD_MS

\* the cached path at one clock value, no call bound to settle
SpecRefetch == InitSettling /\ [][NextSettling]_vars

\* every store call and every remote call settles in the end; the user
\* refreshes when they like
SpecSettling ==
  /\ InitSettling
  /\ [][NextSettling]_vars
  /\ WF_vars(\E duration \in Durations : LoadVideosCacheResolves(duration))
  /\ \A s \in Slots : WF_vars(Settles(s))

(***************************************************************************)
(* Specification of the fallback pagination alone                          *)
(***************************************************************************)
\* whatever a page can hold of two records, a record twice included
AnyPages == {<< >>, <<1>>, <<2>>, <<1, 2>>, <<1, 1>>, <<2, 2>>}

AnyPaginatedResponses ==
  {r \in [videos : AnyPages, nextCursor : Cursors, hasMore : BOOLEAN] :
     ~r.hasMore => r.nextCursor = ""}

\* loadVideos has found no entry, its re-fetch has failed and fallback mode
\* has been entered: the hook has issued the request for the first page
InitPaging ==
  /\ TranscriptsUnmounted
  /\ CacheLayerIdle
  /\ now = 0
  /\ playlistId \in PlaylistProps
  /\ vstore = [k \in CacheKeys |-> NoVideoCache]
  /\ ui = [InitialUi EXCEPT !.usePagination = TRUE, !.isLoading = FALSE]
  /\ lv = [pc |-> "done", outcome |-> "fallback"]
  /\ rf = [s \in Slots |-> NoRefresh]
  /\ refreshes = 0
  /\ pg = [NoPagination EXCEPT !.inflight = {""}]

NextPaging ==
  \/ HandleRefreshFallback
  \/ LoadMore
  \/ \E c \in Cursors : \E resp \in AnyPaginatedResponses : PageResolves(c, resp)
  \/ \E c \in Cursors : PageRejects(c)

SpecPaging == InitPaging /\ [][NextPaging]_vars

(***************************************************************************)
(* Specifications of the transcript cache                                  *)
(***************************************************************************)
Init ==
  /\ TranscriptsUnmounted
  /\ VideosUnmounted
  /\ CacheLayerIdle
  /\ now = 0

LoadStep(p, cap, responses, collections) ==
  \/ \E force \in BOOLEAN : StartLoad(p, force, cap)
  \/ UserClear(p, cap)
  \/ UserClearResolves(p)
  \/ \E vs \in collections : GetVideoCacheHit(p, vs)
  \/ GetVideoCacheMiss(p)
  \/ \E vs \in collections : ListVideosDone(p, vs)
  \/ ListVideosThrows(p)
  \/ GetTranscriptCacheResolves(p)
  \/ ClearTranscriptCacheResolves(p)
  \/ \E k \in lt[p].pending, r \in responses : ResolveGetVideo(p, k, r)
  \/ AddRead(p)
  \/ AddWrite(p)

\* loads run one after the other, and their history is recorded
InitSeq ==
  /\ tstore = NoTranscriptCache
  /\ loads = 0
  /\ lt = [p \in Procs |-> IdleFrame]
  /\ isLoading = TRUE
  /\ error = FALSE
  /\ hist = [NoHistory EXCEPT !.on = TRUE]
  /\ VideosUnmounted
  /\ CacheLayerIdle
  /\ now = 0

NextSeq == LoadStep(1, MaxLoads, GetVideoResponsesByStatus, VideoLists)

SpecSeq == InitSeq /\ [][NextSeq]_vars

\* the collections of the runs with overlapping loads
ShortVideoLists == {vs \in VideoLists : Len(vs) <= MaxOverlapVideos}

\* loads may overlap: a second one can be started while the first is running
Next ==
  \/ \E p \in Procs :
       LoadStep(p, MaxOverlappingLoads, GetVideoResponsesByKind, ShortVideoLists)
  \/ Tick

Spec == Init /\ [][Next]_vars

\* fetchTranscripts(videos, concurrency) called on a worklist vs with any
\* concurrency, as loadTranscripts calls it (no id of vs is cached), followed
\* by the caller's save of the payload (lines 253-256)
CallFetchTranscripts(p, vs, c) ==
  /\ ~Running(p)
  /\ loads < MaxLoads
  /\ vs # << >>
  /\ IdSet(vs) \cap DOMAIN tstore.transcripts = {}
  /\ loads' = loads + 1
  /\ lt' = [lt EXCEPT ![p] = [IdleFrame EXCEPT
                                !.pc = "fetch",
                                !.videos = vs,
                                !.videosToFetch = vs,
                                !.concurrency = c,
                                !.i = 1,
                                !.pending = BatchPositions(1, c, Len(vs))]]
  /\ isLoading' = TRUE
  /\ error' = FALSE
  /\ UNCHANGED <<tstore, now>>
  /\ UNCHANGED <<vvars, cvars>>
  /\ Observe(p)

\* the worklists of the calls: fetchTranscripts uses nothing of a video but
\* its id, so the ids are taken in one order
Worklists == {[k \in 1 .. n |-> k] : n \in 1 .. MaxFetchVideos}

NextFetch ==
  \/ \E vs \in Worklists, c \in 1 .. MaxConcurrency : CallFetchTranscripts(1, vs, c)
  \/ \E k \in lt[1].pending, r \in GetVideoResponsesByStatus : ResolveGetVideo(1, k, r)
  \/ AddRead(1)
  \/ AddWrite(1)

SpecFetch == Init /\ [][NextFetch]_vars

\* the payloads of a call of addTranscriptsToCache: any map from ids to
\* ready transcripts, the empty one included
Payloads ==
  UNION {[ids -> {[status |-> "ready", text |-> t] : t \in Texts}] : ids \in SUBSET VideoIds}

\* addTranscriptsToCache(newTranscripts) called on any payload: runs to its
\* first await, getTranscriptCache()
CallAddTranscriptsToCache(p, newTranscripts) ==
  /\ ~Running(p)
  /\ lt' = [lt EXCEPT ![p] = [IdleFrame EXCEPT !.pc = "addRead",
                                               !.newTranscripts = newTranscripts]]
  /\ UNCHANGED <<tstore, now, loads, isLoading, error>>
  /\ UNCHANGED <<vvars, cvars>>
  /\ Observe(p)

\* calls of addTranscriptsToCache one after the other, as time passes
NextMerge ==
  \/ \E newTranscripts \in Payloads : CallAddTranscriptsToCache(1, newTranscripts)
  \/ AddRead(1)
  \/ AddWrite(1)
  \/ Tick

SpecMerge == Init /\ [][NextMerge]_vars

(***************************************************************************)
(* Specifications of the cache layer called directly                       *)
(***************************************************************************)
\* the transcript cache a previous session can have left
StoredTranscriptCache == MergedCache(NoTranscriptCache, [k \in {1} |-> [status |-> "ready", text |-> 1]], 0)

\* what a previous session, or another program, can have left under the keys
InitStore ==
  /\ TranscriptsUnmounted
  /\ VideosUnmounted
  /\ items \in [ItemKeys -> {NoItem, NotJson, JSONstringify(StoredTranscriptCache)}]
  /\ \A pid \in PartitionKeys : items[ItemKey(pid)] \in {NoItem, NotJson}
  /\ call = NoCall
  /\ last = Summary(NoCall)
  /\ cls = Unclassified
  /\ tf = NoFetch
  /\ now = 0

\* getVideoCache and setVideoCache called one after the other, on a store
\* whose every operation can fail, as time passes
NextStore ==
  \/ \E pid \in PartitionKeys : GetVideoCacheCall(pid)
  \/ \E videos \in RecordLists : \E pid \in PartitionKeys : SetVideoCacheCall(videos, pid)
  \/ \E threw \in BOOLEAN : GetItemSettles(threw)
  \/ \E threw \in BOOLEAN : SetItemSettles(threw)
  \/ Tick

SpecStore == InitStore /\ [][NextStore]_vars

\* the store when the cache-layer functions are called with no call remembered
InitCacheLayer ==
  /\ TranscriptsUnmounted
  /\ VideosUnmounted
  /\ items \in [ItemKeys -> {NoItem, NotJson}]
  /\ call = NoCall
  /\ last = NoSummary
  /\ cls = Unclassified
  /\ tf = NoFetch
  /\ now = 0

\* the five cache-layer functions called one after the other, on a store
\* whose every operation can fail
NextCacheLayer ==
  \/ \E pid \in PartitionKeys : GetVideoCacheCall(pid)
  \/ \E videos \in RecordLists : \E pid \in PartitionKeys : SetVideoCacheCall(videos, pid)
  \/ GetTranscriptCacheCall
  \/ \E newTranscripts \in NewTranscriptMaps : AddTranscriptsToCacheCall(newTranscripts)
  \/ ClearTranscriptCacheCall
  \/ \E threw \in BOOLEAN : GetItemSettles(threw)
  \/ \E threw \in BOOLEAN : SetItemSettles(threw)
  \/ \E threw \in BOOLEAN : RemoveItemSettles(threw)

SpecCacheLayer == InitCacheLayer /\ [][NextCacheLayer]_vars

(***************************************************************************)
(* The remote client: tellaFetch (cache.ts)                                *)
(***************************************************************************)
\* `attempt < 3`: tellaFetch calls itself again while attempt is below this
RETRY_LIMIT == 3

\* the status codes of the responses: ok, rate limited, another failure
Statuses == {200, 429, 500}
\* Number(res.headers.get("Retry-After") || 0): no header, 1 or 2 seconds
RetryAfters == {0, 1, 2}

RECURSIVE Pow2(_)
\* Math.pow(2, attempt)
Pow2(n) == IF n = 0 THEN 1 ELSE 2 * Pow2(n - 1)

\* retryAfter ? retryAfter * 1000 : 500 * Math.pow(2, attempt)
WaitMs(retryAfter, attempt) ==
  IF retryAfter # 0 THEN retryAfter * 1000 ELSE 500 * Pow2(attempt)

\* tellaFetch(path, init) is called: getAuthHeaders() throws when there is no
\* API key, otherwise the first request is issued
CallTellaFetch(hasKey) ==
  /\ tf.pc \in {"idle", "returned", "thrown"}
  /\ tf' = IF hasKey THEN [NoFetch EXCEPT !.pc = "fetch", !.requests = 1]
           ELSE [NoFetch EXCEPT !.pc = "thrown"]
  /\ UNCHANGED <<items, call, last, cls, now>>
  /\ UNCHANGED <<tvars, vvars>>

\* fetch resolves with a response: on 429 the timer of waitMs is set; another
\* status that is not ok throws after res.text(); an ok response is returned
FetchResolves(status, retryAfter) ==
  /\ tf.pc = "fetch"
  /\ LET f == [tf EXCEPT !.responses = Append(@, status)]
     IN tf' = IF status = 429
              THEN [f EXCEPT !.pc = "wait",
                             !.waits = Append(@, WaitMs(retryAfter, tf.attempt))]
              ELSE IF status # 200 THEN [f EXCEPT !.pc = "thrown"]
              ELSE [f EXCEPT !.pc = "returned"]
  /\ UNCHANGED <<items, call, last, cls, now>>
  /\ UNCHANGED <<tvars, vvars>>

\* fetch rejects (no connection): tellaFetch throws
FetchRejects ==
  /\ tf.pc = "fetch"
  /\ tf' = [tf EXCEPT !.pc = "thrown"]
  /\ UNCHANGED <<items, call, last, cls, now>>
  /\ UNCHANGED <<tvars, vvars>>

\* the timer fires after a 429: tellaFetch calls itself with attempt + 1 and
\* issues the next request while attempt < 3; otherwise it goes on to
\* `if (!res.ok)` and throws
TimerFires ==
  /\ tf.pc = "wait"
  /\ tf' = IF tf.attempt < RETRY_LIMIT
           THEN [tf EXCEPT !.pc = "fetch", !.attempt = @ + 1, !.requests = @ + 1]
           ELSE [tf EXCEPT !.pc = "thrown"]
  /\ UNCHANGED <<items, call, last, cls, now>>
  /\ UNCHANGED <<tvars, vvars>>

\* tellaFetch called again and again, the server answering as it likes
InitRetry ==
  /\ TranscriptsUnmounted
  /\ VideosUnmounted
  /\ items = [k \in ItemKeys |-> NoItem]
  /\ call = NoCall
  /\ last = NoSummary
  /\ cls = Unclassified
  /\ tf = NoFetch
  /\ now = 0

NextRetry ==
  \/ \E hasKey \in BOOLEAN : CallTellaFetch(hasKey)
  \/ \E status \in Statuses : \E retryAfter \in RetryAfters : FetchResolves(status, retryAfter)
  \/ FetchRejects
  \/ TimerFires

SpecRetry == InitRetry /\ [][NextRetry]_vars

(***************************************************************************)
(* Specification of the three age tests                                    *)
(***************************************************************************)
\* the ages (ms) at which an answer can change: either side of zero (an entry
\* stamped in the future), of the 5-minute threshold and of every duration
EntryAges ==
  {-1, 0, 1}
    \cup {b + d : b \in {CACHE_FRESH_THRESHOLD_MS}
                        \cup {MaxAgeMs(duration) : duration \in Durations \ {0}},
                  d \in {-1, 0, 1}}

\* the fetchedAt stamps of the entries put to the tests
EntryStamps == {1, 1000, 60000}

\* an entry of some age is at hand
InitAge ==
  /\ TranscriptsUnmounted
  /\ VideosUnmounted
  /\ items = [k \in ItemKeys |-> NoItem]
  /\ call = NoCall
  /\ last = NoSummary
  /\ tf = NoFetch
  /\ \E fetchedAt \in EntryStamps : \E age \in EntryAges :
       /\ cls = [Unclassified EXCEPT !.cache = NewVideoCache(<< >>, "", fetchedAt)]
       /\ now = fetchedAt + age

\* isCacheFresh, isCacheStale and isCacheExpired are called on the entry
\* while the cacheDuration preference is `duration`
Classify(duration) ==
  /\ cls' = [cache |-> cls.cache,
             duration |-> duration,
             done |-> TRUE,
             fresh |-> isCacheFresh(cls.cache, now, duration),
             stale |-> isCacheStale(cls.cache, now, duration),
             expired |-> isCacheExpired(cls.cache, now, duration)]
  /\ UNCHANGED <<items, call, last, tf, now>>
  /\ UNCHANGED <<tvars, vvars>>

NextAge == \E duration \in Durations : Classify(duration)

SpecAge == InitAge /\ [][NextAge]_vars

(***************************************************************************)
(* Properties of the transcript delta cache                                *)
(***************************************************************************)
CachedIds == DOMAIN tstore.transcripts

\* C1: the worklist a load hands to fetchTranscripts has exactly the ids of
\* the collection that have no entry in the transcript cache (A \ B)
C1_WorklistIsDifference ==
  [][\A p \in Procs :
       DeltaStep(p) =>
         IdSet(lt'[p].videosToFetch) = IdSet(lt[p].videos) \ DOMAIN tstore'.transcripts]_vars

\* a load is fetching part of its collection, the rest being cached
C1_Witness ==
  /\ lt[1].pc = "fetch"
  /\ IdSet(lt[1].videos) \cap CachedIds # {}
  /\ lt[1].videosToFetch # << >>
  /\ IdSet(lt[1].videosToFetch) = IdSet(lt[1].videos) \ CachedIds

\* C2: an id that was cached while a load ran without it in the collection
\* is in the worklist of the next load that has it in the collection again
C2_ResurrectedIdIsRefetched == hist.mustRefetch \subseteq hist.worklist

\* C3: when a load has completed, every key of the persisted transcript
\* cache is an id of the collection that load used
C3_PersistedKeysInCollection ==
  (hist.completed /\ lt[1].pc = "idle") => CachedIds \subseteq hist.collection

\* C4: every entry of the persisted transcript cache has status ready
C4_OnlyReadyPersisted ==
  \A v \in CachedIds : tstore.transcripts[v].status = "ready"

\* a load that got a response without a ready transcript has completed and
\* has written the ready ones
C4_Witness ==
  /\ lt[1].pc = "idle"
  /\ hist.completed
  /\ hist.lastFailed # {}
  /\ CachedIds \cap hist.collection # {}
  /\ hist.lastFailed \cap CachedIds = {}

\* the ids of the results with a ready transcript
ReadyIds(results) ==
  {results[k].id : k \in {j \in DOMAIN results : results[j].transcript.status = "ready"}}

\* C5: a getVideo failure is isolated: once fetchTranscripts has returned,
\* every item of every batch has a result, the payload holds exactly the
\* items with a ready transcript, the failed ones have a null transcript and
\* no entry in the payload, no error is raised, and the save that follows
\* leaves the failed ones without an entry in the cache
C5_PartialBatchIsolation ==
  /\ [](\A p \in Procs :
          lt[p].pc \in {"addRead", "addWrite"} =>
            /\ Len(lt[p].results) = Len(lt[p].videosToFetch)
            /\ \A k \in DOMAIN lt[p].results :
                 /\ lt[p].results[k].id = lt[p].videosToFetch[k]
                 /\ lt[p].results[k].id \in lt[p].threw =>
                      lt[p].results[k].transcript = NullTranscript
            /\ DOMAIN lt[p].newTranscripts = ReadyIds(lt[p].results)
            /\ lt[p].threw \cap DOMAIN lt[p].newTranscripts = {}
            /\ ~error)
  /\ [][\A p \in Procs :
         lt[p].pc = "addWrite" /\ lt'[p].pc # "addWrite" =>
           lt[p].threw \cap DOMAIN tstore'.transcripts = {} /\ ~error']_vars

\* fetchTranscripts has returned after two batches, one item of the first
\* batch having failed and its sibling being ready
C5_Witness ==
  /\ lt[1].pc = "addWrite"
  /\ lt[1].concurrency = 2
  /\ Len(lt[1].videosToFetch) = 3
  /\ lt[1].videosToFetch[1] \in lt[1].threw
  /\ lt[1].videosToFetch[2] \in DOMAIN lt[1].newTranscripts
  /\ lt[1].videosToFetch[3] \in DOMAIN lt[1].newTranscripts

\* C6: an id of the last load's worklist that got no ready transcript is in
\* the worklist of the next load whose collection still has it
C6_FailedIsRetried == hist.mustRetry \subseteq hist.worklist

\* the next load is fetching an id the load before it failed to get
C6_Witness ==
  /\ lt[1].pc = "fetch"
  /\ hist.mustRetry # {}
  /\ CachedIds # {}

ClearStep == tstore.exists /\ tstore' = NoTranscriptCache

\* the step prunes v: a load whose collection lacks v filters the cache
PruneStep(v) == \E p \in Procs : DeltaStep(p) /\ v \notin IdSet(lt[p].videos)

\* a persisted ready entry is not replaced by another value, and disappears
\* only through a clear-all or through pruning
ReadyEntryKept ==
  \A v \in CachedIds :
    IF v \in DOMAIN tstore'.transcripts
    THEN tstore'.transcripts[v] = tstore.transcripts[v]
    ELSE ClearStep \/ PruneStep(v)

\* C8: in any sequence or interleaving of loads, a persisted ready entry is
\* never replaced by another value, and disappears only through a clear-all
\* or through pruning
C8_NeverReplaced == [][ReadyEntryKept]_vars

(***************************************************************************)
(* Properties of the video collection orchestrator                         *)
(***************************************************************************)
\* the cache entry of the partition BrowseVideos shows
OwnEntry == vstore[getCacheKey(playlistId)]

\* C9: when loadVideos finds an entry that is stale or expired, the step
\* that starts the background refresh has already shown the cached records
\* and cleared the loading flag, and as long as that refresh is unresolved
\* (and no manual refresh was started) the consumer shows the cached records
C9_CachedShownBeforeRefresh ==
  /\ [][\A d \in Durations :
         (/\ LoadVideosCacheResolves(d)
          /\ OwnEntry.exists
          /\ isCacheStale(OwnEntry, now, d) \/ isCacheExpired(OwnEntry, now, d)) =>
           /\ ui'.videos = OwnEntry.videos
           /\ ~ui'.isLoading
           /\ lv'.pc = "bg"
           /\ rf'["load"] = RefreshStarted]_vars
  /\ []((lv.pc = "bg" /\ refreshes = 0) =>
          (ui.videos = OwnEntry.videos /\ ~ui.isLoading /\ ui.lastSynced = OwnEntry.fetchedAt))

\* the background refresh has received its last page and not yet resolved,
\* while the cached records are on display
C9_Witness ==
  /\ lv.pc = "bg"
  /\ rf["load"].phase = "setVideoCache"
  /\ rf["load"].allVideos # OwnEntry.videos
  /\ ui.videos = OwnEntry.videos
  /\ ui.videos # << >>
  /\ ~ui.isLoading
  /\ ui.isSyncing

\* C10: when a listVideos call of the background refresh rejects, on any
\* page, the records shown, the cache entries, the fallback flag and the
\* toast are left as they were, fallback mode is off, the syncing flag is
\* cleared, and the records shown are still the cached ones unless a manual
\* refresh has run
C10_BackgroundFailureIsSilent ==
  [][(lv.pc = "bg" /\ ListVideosRejects("load")) =>
       /\ ui'.videos = ui.videos
       /\ vstore' = vstore
       /\ ~ui'.usePagination
       /\ ui'.toast = ui.toast
       /\ ~ui'.isSyncing
       /\ lv'.outcome = "backgroundFailed"
       /\ refreshes = 0 => ui'.videos = OwnEntry.videos]_vars

\* the background refresh has failed and the cached records are on display
C10_Witness ==
  /\ lv.outcome = "backgroundFailed"
  /\ OwnEntry.exists
  /\ ui.videos = OwnEntry.videos
  /\ ui.videos # << >>
  /\ ~ui.isSyncing
  /\ ~ui.isLoading
  /\ ~ui.usePagination
  /\ ui.toast = "none"

\* C11: when loadVideos has found no cache entry and a listVideos call of its
\* full re-fetch rejects, loadVideos returns (nothing is thrown) in fallback
\* mode with the loading flag cleared and no toast raised, the hook issues
\* the request for the first page, and from then on the data shown is the
\* paginated list
C11_MissAndFailureEndInFallback ==
  /\ [][(lv.pc = "fg" /\ ListVideosRejects("load")) =>
          /\ lv' = [pc |-> "done", outcome |-> "fallback"]
          /\ ui'.usePagination
          /\ ~ui'.isLoading
          /\ ui'.toast = ui.toast
          /\ "" \in pg'.inflight
          /\ Data(ui') = ui'.paginatedVideos]_vars
  /\ [](lv.outcome = "fallback" => (ui.usePagination /\ Data(ui) = ui.paginatedVideos))

\* after the fallback, the first page has arrived and is shown, the list of
\* the cached path being another one
C11_Witness ==
  /\ lv.outcome = "fallback"
  /\ ~ui.isLoading
  /\ ui.paginatedVideos # << >>
  /\ Data(ui) = ui.paginatedVideos
  /\ Data(ui) # ui.videos

\* the step starts no full re-fetch and does not run loadVideos again
NoCachedPathAttempt ==
  /\ lv' = lv
  /\ \A s \in Slots : rf[s].phase = "idle" => rf'[s].phase = "idle"

\* C12: in fallback mode no automatic step attempts the cached path again,
\* and a manual refresh retries it from scratch: it starts a full re-fetch
\* or leaves fallback mode
C12_ManualRefreshRetriesCachedPath ==
  /\ [][(ui.usePagination /\ ~HandleRefreshFallback) => NoCachedPathAttempt]_vars
  /\ [][(ui.usePagination /\ HandleRefreshFallback) =>
          (rf'["manual"].phase = "listVideos" \/ ~ui'.usePagination)]_vars

\* C12 amended: in fallback mode no step, a manual refresh included,
\* attempts the cached path again, and fallback mode is not left
C12_FallbackIsNeverLeft ==
  [][ui.usePagination => (ui'.usePagination /\ NoCachedPathAttempt)]_vars

\* in fallback mode a manual refresh has emptied the list and asked for the
\* first page while a later page was still being fetched
C12_Witness ==
  /\ ui.usePagination
  /\ ui.paginatedVideos = << >>
  /\ pg.inflight = {"", "c1"}
  /\ \A s \in Slots : rf[s].phase = "idle"

\* C13: a manual refresh in fallback mode starts no full re-fetch and writes
\* no cache entry; it empties the paginated list and asks for the first
\* page; and when a page asked without a cursor arrives, the list becomes
\* exactly that page
C13_FallbackRefreshRestartsPagination ==
  /\ [][HandleRefreshFallback =>
          /\ vstore' = vstore
          /\ rf' = rf
          /\ ui'.paginatedVideos = << >>
          /\ "" \in pg'.inflight]_vars
  /\ [][\A resp \in PaginatedResponses("") :
          PageResolves("", resp) => ui'.paginatedVideos = resp.videos]_vars

\* the first page asked by a manual refresh has arrived while an older
\* request for a later page is still in flight, and the list is that page
C13_Witness ==
  /\ ui.usePagination
  /\ pg.inflight = {"c1"}
  /\ ~pg.hasMore
  /\ ui.paginatedVideos = <<1>>

C15_EntryChangesOnlyOnCompleteRefetch ==
  /\ [][vstore' # vstore =>
          \E s \in Slots :
            /\ rf[s].phase = "setVideoCache"
            /\ rf[s].pages >= 1
            /\ rf[s].entry.videos = rf[s].allVideos
            /\ rf'[s] = NoRefresh
            /\ vstore' = [vstore EXCEPT ![getCacheKey(playlistId)] = rf[s].entry]]_vars
  /\ [][(\E s \in Slots : ListVideosRejects(s)) => vstore' = vstore]_vars
  /\ [](\A s \in Slots : rf[s].phase = "listVideos" => rf[s].entry = NoVideoCache)

\* the manual refresh has failed, the background re-fetch has received its
\* first page and waits for the second, and the entry is the one found at load
C15_Witness ==
  /\ ui.toast = "failure"
  /\ rf["manual"].phase = "idle"
  /\ rf["load"].phase = "listVideos"
  /\ rf["load"].pages = 1
  /\ rf["load"].allVideos = <<1>>
  /\ OwnEntry.exists
  /\ OwnEntry.videos = << >>
  /\ ui.videos = << >>

\* C16: when setVideoCache(L, p) has stored its item and the next call is
\* getVideoCache(p), whose getItem resolves, the entry returned has the
\* records L in their order, the partition key p (null for none) and, as
\* fetchedAt, the time at which setVideoCache was called
C16_ReadAfterWriteReturnsWhatWasWritten ==
  [][(/\ GetItemSettles(FALSE)
      /\ call.op = "getVideoCache"
      /\ last.op = "setVideoCache"
      /\ last.stored
      /\ last.pid = call.pid) =>
       /\ call'.pc = "returned"
       /\ call'.video.exists
       /\ call'.video.videos = last.videos
       /\ call'.video.playlistId = (IF call.pid = "" THEN "null" ELSE call.pid)
       /\ call'.video.fetchedAt = last.calledAt
       /\ last.calledAt <= now]_vars

\* with no playlist: a list of two records written at time 1 over an item
\* that did not parse has been read back
C16_Witness ==
  /\ call.op = "getVideoCache"
  /\ call.pc = "returned"
  /\ call.pid = ""
  /\ last.op = "setVideoCache"
  /\ last.stored
  /\ last.pid = ""
  /\ last.calledAt = 1
  /\ call.video = [exists |-> TRUE, videos |-> <<2, 1>>, fetchedAt |-> 1,
                   playlistId |-> "null"]
  /\ items[ItemKey("p1")] = NotJson

\* the getItem of the call in progress rejects, or resolves with an item
\* JSON.parse throws on
ReadFails ==
  \/ GetItemSettles(TRUE)
  \/ GetItemSettles(FALSE) /\ items[KeyOf(call)] = NotJson

\* C17: no call of the five cache-layer functions raises; when getItem
\* rejects or the item does not parse, getVideoCache and getTranscriptCache
\* return null, and addTranscriptsToCache goes on with null for the existing
\* cache; when setItem or removeItem rejects, the function returns normally
\* and every item of the store is as it was
C17_CacheLayerNeverRaises ==
  /\ [](~call.raised)
  /\ [][ReadFails =>
          /\ items' = items
          /\ call.op = "getVideoCache" =>
               (call'.pc = "returned" /\ call'.video = NoVideoCache)
          /\ call.op = "getTranscriptCache" =>
               (call'.pc = "returned" /\ call'.transcript = NoTranscriptCache)
          /\ call.op = "addTranscriptsToCache" =>
               /\ call'.pc = "setItem"
               /\ call'.transcript = NoTranscriptCache
               /\ JSONparse(call'.text).transcripts = call.newTranscripts]_vars
  /\ [][(SetItemSettles(TRUE) \/ RemoveItemSettles(TRUE)) =>
          (items' = items /\ call'.pc = "returned" /\ ~call'.stored)]_vars

\* addTranscriptsToCache has returned: its read found an item that does not
\* parse, its write was rejected, and the item is still there
C17_Witness ==
  /\ call.op = "addTranscriptsToCache"
  /\ call.pc = "returned"
  /\ call.transcript = NoTranscriptCache
  /\ ~call.stored
  /\ ~call.raised
  /\ items[TRANSCRIPT_CACHE_KEY] = NotJson
  /\ \E pid \in PartitionKeys : items[ItemKey(pid)].kind = "json"

\* C18: when the setItem of setVideoCache(L, p) resolves, the item of every
\* partition key other than p, and the item of the transcript cache, are as
\* they were
C18_WriteLeavesOtherPartitions ==
  [][(SetItemSettles(FALSE) /\ call.op = "setVideoCache") =>
       /\ \A q \in PartitionKeys \ {call.pid} :
            items'[ItemKey(q)] = items[ItemKey(q)]
       /\ items'[TRANSCRIPT_CACHE_KEY] = items[TRANSCRIPT_CACHE_KEY]]_vars

\* C19: with a duration of D > 0 minutes and an entry of age a (ms), the
\* entry is stale exactly when 5 min <= a < D * 60 s, expired exactly when
\* a >= D * 60 s, and fresh exactly when a < 5 min
C19_AgeClasses ==
  (cls.done /\ cls.duration > 0) =>
    LET a == now - cls.cache.fetchedAt
        D == cls.duration
    IN /\ cls.stale <=> (5 * 60 * 1000 <= a /\ a < D * 60 * 1000)
       /\ cls.expired <=> (a >= D * 60 * 1000)
       /\ cls.fresh <=> (a < 5 * 60 * 1000)

\* an entry one millisecond short of 30 minutes old is stale under a
\* duration of 30 minutes
C19_Witness ==
  /\ cls.done
  /\ cls.duration = 30
  /\ now - cls.cache.fetchedAt = 30 * 60 * 1000 - 1
  /\ cls.stale
  /\ ~cls.fresh
  /\ ~cls.expired

\* C20: with a duration of 0 isCacheStale and isCacheExpired answer false
\* at every age; so when loadVideos finds an entry under that duration it
\* shows it and returns without starting a re-fetch or the syncing flag, and
\* after loadVideos has returned only handleRefresh starts a re-fetch
C20_ManualOnlyNeverAutoRefreshes ==
  /\ \A fetchedAt \in EntryStamps : \A age \in EntryAges :
       LET cache == NewVideoCache(<< >>, "", fetchedAt)
       IN /\ ~isCacheStale(cache, fetchedAt + age, 0)
          /\ ~isCacheExpired(cache, fetchedAt + age, 0)
  /\ [][(LoadVideosCacheResolves(0) /\ OwnEntry.exists) =>
          /\ rf' = rf
          /\ lv' = [pc |-> "done", outcome |-> "fromCache"]
          /\ ~ui'.isSyncing
          /\ ui'.videos = OwnEntry.videos]_vars
  /\ [][(lv.pc = "done" /\ \E s \in Slots : rf[s].phase = "idle" /\ rf'[s].phase # "idle")
          => HandleRefresh]_vars

\* loadVideos has returned from the cache with an entry five minutes old,
\* which is past the only duration that equals the threshold, and nothing
\* is being fetched
C20_Witness ==
  /\ lv = [pc |-> "done", outcome |-> "fromCache"]
  /\ OwnEntry.exists
  /\ now - OwnEntry.fetchedAt >= CACHE_FRESH_THRESHOLD_MS
  /\ ui.lastSynced = OwnEntry.fetchedAt
  /\ ui.videos = OwnEntry.videos
  /\ ~ui.isSyncing
  /\ refreshes = 0
  /\ \A s \in Slots : rf[s].phase = "idle"

\* C21: with a duration of 0 isCacheFresh answers what it answers with any
\* other duration: true exactly when the age of the entry is under 5 minutes
C21_ManualOnlyKeepsFresh ==
  (cls.done /\ cls.duration = 0) =>
    (cls.fresh <=> (now - cls.cache.fetchedAt < 5 * 60 * 1000))

\* C22: an entry stamped later than the current time is fresh, not stale and
\* not expired under every duration, and when loadVideos finds such an entry
\* it shows it and returns without starting a re-fetch
C22_FutureStampIsFresh ==
  /\ \A duration \in Durations : \A fetchedAt \in EntryStamps :
       \A t \in {0, fetchedAt - 1} :
         LET cache == NewVideoCache(<< >>, "", fetchedAt)
         IN /\ isCacheFresh(cache, t, duration)
            /\ ~isCacheStale(cache, t, duration)
            /\ ~isCacheExpired(cache, t, duration)
  /\ [][\A duration \in Durations :
          (LoadVideosCacheResolves(duration) /\ OwnEntry.exists /\ OwnEntry.fetchedAt > now) =>
            /\ rf' = rf
            /\ lv' = [pc |-> "done", outcome |-> "fromCache"]
            /\ ~ui'.isSyncing]_vars

\* C23: when every response of a tellaFetch call has been a 429, at most 3
\* requests have been issued, and the call does not return a result
C23_AtMostThreeRequests ==
  (\A k \in DOMAIN tf.responses : tf.responses[k] = 429) =>
    (tf.requests <= 3 /\ tf.pc # "returned")

\* the positions of the worklist from i on that make one batch of the call
\* in progress
BatchOf(f, i) ==
  {k \in 1 .. Len(f.videosToFetch) : i <= k /\ k < i + f.concurrency}

\* C24: in a fetchTranscripts call with concurrency C the getVideo requests
\* in flight are at most C and belong to one batch; the first batch is
\* issued at the call, the requests of the next batch are issued in the step
\* in which the last request of the batch before settles (fulfilled or
\* thrown), they are the C positions that follow, never requested before,
\* and the call goes on to its end only when every position has been
\* requested and has settled
C24_BatchesAreStrict ==
  /\ [](lt[1].pc = "fetch" =>
          /\ lt[1].pending # {}
          /\ Cardinality(lt[1].pending) <= lt[1].concurrency
          /\ lt[1].pending \subseteq BatchOf(lt[1], lt[1].i))
  /\ [][(lt[1].pc # "fetch" /\ lt'[1].pc = "fetch") =>
          (lt'[1].i = 1 /\ lt'[1].pending = BatchOf(lt'[1], 1))]_vars
  /\ [][(lt[1].pc = "fetch" /\ lt'[1].pending \ lt[1].pending # {}) =>
          /\ Cardinality(lt[1].pending) = 1
          /\ lt'[1].i = lt[1].i + lt[1].concurrency
          /\ lt'[1].pending = BatchOf(lt[1], lt'[1].i)
          /\ \A k \in lt'[1].pending : \A j \in BatchOf(lt[1], lt[1].i) : k > j
          /\ Len(lt'[1].results) = lt'[1].i - 1]_vars
  /\ [][(lt[1].pc = "fetch" /\ lt'[1].pc # "fetch") =>
          /\ Cardinality(lt[1].pending) = 1
          /\ lt[1].i + lt[1].concurrency > Len(lt[1].videosToFetch)]_vars

\* with concurrency 2 and three videos: the first batch has settled, one of
\* its requests having thrown, and the third request alone is in flight
C24_Witness ==
  /\ lt[1].pc = "fetch"
  /\ lt[1].concurrency = 2
  /\ Len(lt[1].videosToFetch) = 3
  /\ lt[1].i = 3
  /\ lt[1].pending = {3}
  /\ lt[1].threw # {}
  /\ Len(lt[1].results) = 2

\* C25: a run of refreshAllVideos has one listVideos request in flight at a
\* time: the first, issued when the run starts, carries no cursor; when the
\* response to a request arrives its records are appended to the records
\* received so far, and then either the next request is issued with the
\* nextCursor of that response, or (hasMore false) no request is issued and
\* the records received, in the order of the requests, are what is stored
\* and returned
C25_PagesAreFetchedInSequence ==
  /\ [][\A s \in Slots :
          (rf[s].phase = "idle" /\ rf'[s].phase # "idle") =>
            /\ rf'[s].phase = "listVideos"
            /\ rf'[s].cursor = ""
            /\ rf'[s].pages = 0
            /\ rf'[s].allVideos = << >>]_vars
  /\ [][\A s \in Slots : \A resp \in ListVideosResponses(rf[s].pages + 1) :
          ListVideosResolves(s, resp) =>
            /\ rf'[s].allVideos = rf[s].allVideos \o resp.videos
            /\ rf'[s].pages = rf[s].pages + 1
            /\ resp.hasMore =>
                 (rf'[s].phase = "listVideos" /\ rf'[s].cursor = resp.nextCursor)
            /\ ~resp.hasMore =>
                 (rf'[s].phase = "setVideoCache"
                    /\ rf'[s].entry.videos = rf'[s].allVideos)]_vars
  /\ [][\A s \in Slots :
          SetVideoCacheResolves(s) =>
            /\ ui'.videos = rf[s].allVideos
            /\ vstore'[getCacheKey(playlistId)].videos = rf[s].allVideos]_vars

\* the first page of the re-fetch of loadVideos has arrived with one record
\* and the second request is in flight with the cursor that page gave
C25_Witness ==
  /\ rf["load"].phase = "listVideos"
  /\ rf["load"].pages = 1
  /\ rf["load"].cursor = "c1"
  /\ rf["load"].allVideos = <<1>>

\* C26: the re-fetch started by loadVideos and the one started by
\* handleRefresh run side by side (the state of C26_Witness), neither waits
\* for or changes the other, and each store write replaces the entry of the
\* partition, whatever the other has written: once both have completed the
\* entry holds the records of the one whose write came last
C26_LastWriteWins ==
  /\ [][\A s \in Slots :
          SetVideoCacheResolves(s) =>
            /\ vstore'[getCacheKey(playlistId)] = rf[s].entry
            /\ vstore'[getCacheKey(playlistId)].videos = rf[s].allVideos
            /\ \A o \in Slots \ {s} : rf'[o] = rf[o]]_vars
  /\ [][(\E s \in Slots : rf[s].phase # "idle") =>
          (vstore' # vstore => \E s \in Slots : SetVideoCacheResolves(s))]_vars

\* the background re-fetch of loadVideos and a manual re-fetch have both
\* received their pages, with different records, and both writes are pending
C26_Witness ==
  /\ lv.pc = "bg"
  /\ rf["load"].phase = "setVideoCache"
  /\ rf["manual"].phase = "setVideoCache"
  /\ rf["load"].allVideos # rf["manual"].allVideos
  /\ OwnEntry.exists
  /\ OwnEntry.videos # rf["load"].allVideos
  /\ OwnEntry.videos # rf["manual"].allVideos

\* C27: in fallback mode the accumulated list never holds two records with
\* the same id
C27_PaginatedListHasNoDuplicates ==
  \A j, k \in DOMAIN ui.paginatedVideos :
    ui.paginatedVideos[j] = ui.paginatedVideos[k] => j = k

\* C28: when the write of an addTranscriptsToCache call lands, the persisted
\* map has every key it had before and every key of the payload, also when
\* the calls of two loads interleave
C28_MergeKeepsEveryKey ==
  [][\A p \in Procs :
       AddWrite(p) =>
         (DOMAIN tstore.transcripts) \cup (DOMAIN lt[p].newTranscripts)
           \subseteq DOMAIN tstore'.transcripts]_vars

\* loadVideos has returned and no re-fetch is in flight
AtRest == lv.pc = "done" /\ \A s \in Slots : rf[s].phase = "idle"

\* a full re-fetch, of loadVideos or manual, has run to its end
SomeRefetchSucceeded == lv.outcome = "fromFetch" \/ ui.toast = "success"

ShownIsStored == OwnEntry.exists /\ Data(ui) = OwnEntry.videos

Resting ==
  /\ lv.pc = "done"
  /\ lv.outcome \in {"fromCache", "fromFetch", "backgroundFailed", "fallback"}
  /\ lv.outcome = "fallback" <=> ui.usePagination
  /\ ~ui.isLoading
  /\ ~ui.isSyncing

\* C30: when every awaited call settles and the pages end, loadVideos comes
\* to rest (from the cache, also after a failed background re-fetch, from
\* the fetch, or in fallback mode) with the loading flag and the syncing
\* flag both false
C30_LoadComesToRest == <>Resting

\* loadVideos rests on the cached records after its background re-fetch has
\* failed and a manual refresh has run
C30_Witness ==
  /\ Resting
  /\ lv.outcome = "backgroundFailed"
  /\ refreshes = 1
  /\ AtRest

====
